---- MODULE Spec2Model ----
(***************************************************************************)
(* RPlayer: a push-to-talk player.  Player (src/player.rs) ties the RTS    *)
(* bit of a serial line's modem-control word to the paused flag of a rodio *)
(* Sink.  The model follows one caller thread through for_devices,         *)
(* queue_audio, play, pause and Drop, one step per statement that touches  *)
(* the line, the sink or a resource.                                       *)
(***************************************************************************)
EXTENDS Integers, Sequences, FiniteSets, TLC

\* ---------------------------------------------------------------- bounds
\* Number of low bits of the modem-control word that are modelled.
WordBits == 3
\* Largest number of sources the sink's queue holds in the model.
MaxQueue == 2

\* ------------------------------------------------------------- constants
TIOCM_RTS_FLAG == 4

\* All values of the modelled part of the control word (it holds the RTS bit).
Words == 0 .. (2 ^ WordBits) - 1

RECURSIVE BitAnd(_, _)
BitAnd(a, b) ==
    IF a = 0 \/ b = 0 THEN 0
    ELSE (a % 2) * (b % 2) + 2 * BitAnd(a \div 2, b \div 2)

RECURSIVE BitXor(_, _)
BitXor(a, b) ==
    IF a = 0 THEN b
    ELSE IF b = 0 THEN a
    ELSE (((a % 2) + (b % 2)) % 2) + 2 * BitXor(a \div 2, b \div 2)

VARIABLES
    pc,            \* position of the calling thread
    control_bits,  \* the line's modem-control word (hardware state)
    fd,            \* tty_fd: "none", "open", "closed", "close_failed"
    closeCalls,    \* close(2) calls issued on the current tty_fd
    stream,        \* OutputStream: "none", "open", "released"
    sink,          \* Sink: "none", "open", "released"
    paused,        \* the sink's pause flag (Sink::is_paused)
    queued,        \* number of sources in the sink's queue
    player,        \* the Player value: "none", "alive", "dropped"
    call,          \* [op, ret] of the call in progress or last returned
    pre,           \* [bits, paused] when that call started
    toggles,       \* successful TIOCMSET writes made by that call
    lastPP,        \* [op, ret] of the last play/pause call that returned
    prevPP,        \* lastPP as it was when the current play/pause started
    hist,          \* calls on this Player: "none" (no queue_audio has succeeded),
                   \* "queued" (queue_audio only), "pp" (queue_audio, then
                   \* play/pause only), "mixed" (queue_audio after play/pause)
    main,          \* the front end (main.rs): [pc, is_paused, count]
    thr,           \* callers sharing one Player: thread -> [op, pc, bits, rd, ret]
    tg             \* a run of toggle_rts calls: [orig, prev, n, last, en]

vars == << pc, control_bits, fd, closeCalls, stream, sink, paused, queued,
           player, call, pre, toggles, lastPP, prevPP, hist, main, thr, tg >>

\* The state of the front end, of the concurrent callers and of the toggle
\* run; each is used by one specification and stays as it is in the others.
aux == << main, thr, tg >>

\* The Player and its caller's position, without the line's word.
base == << pc, fd, closeCalls, stream, sink, paused, queued, player, call,
           pre, toggles, lastPP, prevPP, hist >>

NoCall == [op |-> "none", ret |-> "none"]

\* ------------------------------------------------ control-line operations
\* (control_bits & TIOCM_RTS_FLAG) != 0
RtsBit(bits) == BitAnd(bits, TIOCM_RTS_FLAG) # 0

\* Variant of rts_is_enabled with the test of the RTS bit inverted.
rts_is_enabled_m(rdOk, bits) ==
    [ok |-> rdOk, val |-> rdOk /\ ~RtsBit(bits)]

\* rts_is_enabled: TIOCMGET, then test the RTS bit.  rdOk is the outcome of
\* the ioctl.
rts_is_enabled(rdOk, bits) ==
    [ok |-> rdOk, val |-> rdOk /\ RtsBit(bits)]

\* Variant of toggle_rts that flips the neighbouring flag (0x002) instead.
toggle_rts_m(rdOk, wrOk, bits) ==
    IF ~rdOk THEN [ok |-> FALSE, bits |-> bits]
    ELSE IF ~wrOk THEN [ok |-> FALSE, bits |-> bits]
    ELSE [ok |-> TRUE, bits |-> BitXor(bits, TIOCM_RTS_FLAG \div 2)]

\* toggle_rts: TIOCMGET, xor the RTS bit, TIOCMSET.  A failed ioctl returns
\* the error and the hardware word is as it was.
toggle_rts(rdOk, wrOk, bits) ==
    IF ~rdOk THEN [ok |-> FALSE, bits |-> bits]
    ELSE IF ~wrOk THEN [ok |-> FALSE, bits |-> bits]
    ELSE [ok |-> TRUE, bits |-> BitXor(bits, TIOCM_RTS_FLAG)]

LineAsserted == RtsBit(control_bits)
SinkPlaying == ~paused

\* ------------------------------------------------------------------ Init
InitBase ==
    /\ pc = "start"
    /\ control_bits \in Words
    /\ fd = "none"
    /\ closeCalls = 0
    /\ stream = "none"
    /\ sink = "none"
    /\ paused = FALSE
    /\ queued = 0
    /\ player = "none"
    /\ call = NoCall
    /\ pre = [bits |-> control_bits, paused |-> FALSE]
    /\ toggles = 0
    /\ lastPP = NoCall
    /\ prevPP = NoCall
    /\ hist = "none"

NoMain == [pc |-> "none", is_paused |-> TRUE, count |-> 0]
NoThreads == << >>
NoToggles == [orig |-> 0, prev |-> 0, n |-> 0, last |-> "none", en |-> "none"]

\* A caller that is about to construct a Player, over any state of the line.
Init ==
    /\ InitBase
    /\ main = NoMain
    /\ thr = NoThreads
    /\ tg = NoToggles

\* ----------------------------------------------------------- for_devices
\* Lines 34-50: enumerate the output devices and pick the one whose name is
\* audio_device_name.
FD_Enumerate ==
    /\ pc = "start"
    /\ \E enumOk \in BOOLEAN, found \in BOOLEAN :
         /\ call' = [op |-> "for_devices",
                     ret |-> IF ~enumOk THEN "EnumerateError"
                             ELSE IF ~found THEN "DeviceNotFoundError"
                             ELSE "running"]
         /\ pc' = IF enumOk /\ found THEN "fd_stream" ELSE "start"
    /\ fd' = "none"
    /\ closeCalls' = 0
    /\ stream' = "none"
    /\ sink' = "none"
    /\ paused' = FALSE
    /\ queued' = 0
    /\ player' = "none"
    /\ pre' = [bits |-> control_bits, paused |-> FALSE]
    /\ toggles' = 0
    /\ lastPP' = NoCall
    /\ prevPP' = NoCall
    /\ hist' = "none"
    /\ UNCHANGED control_bits
    /\ UNCHANGED aux

\* Line 55: OutputStream::try_from_device(..).unwrap()
FD_OpenStream ==
    /\ pc = "fd_stream"
    /\ \E ok \in BOOLEAN :
         IF ok
         THEN /\ stream' = "open"
              /\ pc' = "fd_sink"
              /\ UNCHANGED call
         ELSE /\ pc' = "panicked"
              /\ call' = [call EXCEPT !.ret = "panic"]
              /\ UNCHANGED stream
    /\ UNCHANGED << control_bits, fd, closeCalls, sink, paused, queued,
                    player, pre, toggles, lastPP, prevPP, hist >>
    /\ UNCHANGED aux

\* Line 56: Sink::try_new(..)?  A new rodio Sink is not paused and holds
\* nothing.  On failure the local stream is dropped by the early return.
FD_NewSink ==
    /\ pc = "fd_sink"
    /\ \E ok \in BOOLEAN :
         IF ok
         THEN /\ sink' = "open"
              /\ paused' = FALSE
              /\ queued' = 0
              /\ pc' = "fd_tty"
              /\ UNCHANGED << stream, call >>
         ELSE /\ stream' = "released"
              /\ call' = [call EXCEPT !.ret = "SinkError"]
              /\ pc' = "start"
              /\ UNCHANGED << sink, paused, queued >>
    /\ UNCHANGED << control_bits, fd, closeCalls, player, pre, toggles,
                    lastPP, prevPP, hist >>
    /\ UNCHANGED aux

\* Variant of FD_OpenTty whose failure route keeps the sink and the stream.
FD_OpenTty_m ==
    /\ pc = "fd_tty"
    /\ \E ok \in BOOLEAN :
         IF ok
         THEN /\ fd' = "open"
              /\ player' = "alive"
              /\ pc' = "fd_safety_read"
              /\ UNCHANGED call
         ELSE /\ call' = [call EXCEPT !.ret = "DeviceOpenError"]
              /\ pc' = "start"
              /\ UNCHANGED << fd, player >>
    /\ UNCHANGED << control_bits, closeCalls, stream, sink, paused, queued,
                    pre, toggles, lastPP, prevPP, hist >>
    /\ UNCHANGED aux

\* Lines 59-63: fcntl::open(..)? and Player{tty_fd, sink, stream}.  On
\* failure the early return drops the locals sink and stream.
FD_OpenTty ==
    /\ pc = "fd_tty"
    /\ \E ok \in BOOLEAN :
         IF ok
         THEN /\ fd' = "open"
              /\ player' = "alive"
              /\ pc' = "fd_safety_read"
              /\ UNCHANGED << sink, stream, call >>
         ELSE /\ sink' = "released"
              /\ stream' = "released"
              /\ call' = [call EXCEPT !.ret = "DeviceOpenError"]
              /\ pc' = "start"
              /\ UNCHANGED << fd, player >>
    /\ UNCHANGED << control_bits, closeCalls, paused, queued, pre, toggles,
                    lastPP, prevPP, hist >>
    /\ UNCHANGED aux

\* Line 64: if player.rts_is_enabled()? { .. }   An error leaves the
\* function with player in scope, so Drop for Player runs before the return.
FD_SafetyRead ==
    /\ pc = "fd_safety_read"
    /\ \E rdOk \in BOOLEAN :
         LET r == rts_is_enabled(rdOk, control_bits) IN
         IF ~r.ok
         THEN /\ call' = [call EXCEPT !.ret = "IoControlError"]
              /\ pc' = "drop_close"
         ELSE IF r.val
         THEN /\ pc' = "fd_safety_toggle"
              /\ UNCHANGED call
         ELSE /\ call' = [call EXCEPT !.ret = "ok"]
              /\ pc' = "idle"
    /\ UNCHANGED << control_bits, fd, closeCalls, stream, sink, paused,
                    queued, player, pre, toggles, lastPP, prevPP, hist >>
    /\ UNCHANGED aux

\* Lines 65-68: player.toggle_rts()? and Ok(player)
FD_SafetyToggle ==
    /\ pc = "fd_safety_toggle"
    /\ \E rdOk \in BOOLEAN, wrOk \in BOOLEAN :
         LET t == toggle_rts(rdOk, wrOk, control_bits) IN
         /\ control_bits' = t.bits
         /\ IF t.ok
            THEN /\ toggles' = toggles + 1
                 /\ call' = [call EXCEPT !.ret = "ok"]
                 /\ pc' = "idle"
            ELSE /\ call' = [call EXCEPT !.ret = "IoControlError"]
                 /\ pc' = "drop_close"
                 /\ UNCHANGED toggles
    /\ UNCHANGED << fd, closeCalls, stream, sink, paused, queued, player,
                    pre, lastPP, prevPP, hist >>
    /\ UNCHANGED aux

\* ----------------------------------------------------------- queue_audio
\* Lines 72-75: open the file and build the decoder; either may fail and
\* return before the sink is touched.
QA_Open ==
    /\ pc = "idle"
    /\ player = "alive"
    /\ queued < MaxQueue
    /\ \E fileOk \in BOOLEAN, decodeOk \in BOOLEAN :
         /\ call' = [op |-> "queue_audio",
                     ret |-> IF ~fileOk THEN "FileOpenError"
                             ELSE IF ~decodeOk THEN "DecodeError"
                             ELSE "running"]
         /\ pc' = IF fileOk /\ decodeOk THEN "qa_append" ELSE "idle"
    /\ pre' = [bits |-> control_bits, paused |-> paused]
    /\ toggles' = 0
    /\ UNCHANGED << control_bits, fd, closeCalls, stream, sink, paused,
                    queued, player, lastPP, prevPP, hist >>
    /\ UNCHANGED aux

\* Line 76: self.sink.append(source)
QA_Append ==
    /\ pc = "qa_append"
    /\ queued' = queued + 1
    /\ pc' = "qa_pause"
    /\ UNCHANGED << control_bits, fd, closeCalls, stream, sink, paused,
                    player, call, pre, toggles, lastPP, prevPP, hist >>
    /\ UNCHANGED aux

\* Lines 77-79: self.sink.pause(); Ok(())
QA_Pause ==
    /\ pc = "qa_pause"
    /\ paused' = TRUE
    /\ call' = [call EXCEPT !.ret = "ok"]
    /\ hist' = IF hist \in {"none", "queued"} THEN "queued" ELSE "mixed"
    /\ pc' = "idle"
    /\ UNCHANGED << control_bits, fd, closeCalls, stream, sink, queued,
                    player, pre, toggles, lastPP, prevPP >>
    /\ UNCHANGED aux

\* The output stream's thread plays the front source of an unpaused sink to
\* its end and removes it from the queue.
SinkDrain ==
    /\ sink = "open"
    /\ stream = "open"
    /\ ~paused
    /\ queued > 0
    /\ queued' = queued - 1
    /\ UNCHANGED << pc, control_bits, fd, closeCalls, stream, sink, paused,
                    player, call, pre, toggles, lastPP, prevPP, hist >>
    /\ UNCHANGED aux

\* ------------------------------------------------------------------ play
\* Variant of PlayRejects that looks at the sink only.
PlayRejects_m(rts, is_paused) == ~is_paused

\* self.rts_is_enabled()? || !self.sink.is_paused()
PlayRejects(rts, is_paused) == rts \/ ~is_paused

\* Lines 83-85: the precondition check of play.
PlayCheck ==
    /\ pc = "idle"
    /\ player = "alive"
    /\ \E rdOk \in BOOLEAN :
         LET r == rts_is_enabled(rdOk, control_bits)
             ret == IF ~r.ok THEN "IoControlError"
                    ELSE IF PlayRejects(r.val, paused)
                         THEN "AlreadyTransmittingError"
                    ELSE "running"
         IN /\ call' = [op |-> "play", ret |-> ret]
            /\ pc' = IF ret = "running" THEN "play_toggle" ELSE "idle"
            /\ lastPP' = IF ret = "running" THEN lastPP
                         ELSE [op |-> "play", ret |-> ret]
    /\ prevPP' = lastPP
    /\ pre' = [bits |-> control_bits, paused |-> paused]
    /\ toggles' = 0
    /\ hist' = IF hist = "none" THEN "none"
               ELSE IF hist \in {"queued", "pp"} THEN "pp"
               ELSE "mixed"
    /\ UNCHANGED << control_bits, fd, closeCalls, stream, sink, paused,
                    queued, player >>
    /\ UNCHANGED aux

\* Variant of PlayToggle that resumes the sink with the toggle, before the
\* settle delay.
PlayToggle_m ==
    /\ pc = "play_toggle"
    /\ \E rdOk \in BOOLEAN, wrOk \in BOOLEAN :
         LET t == toggle_rts(rdOk, wrOk, control_bits) IN
         /\ control_bits' = t.bits
         /\ IF t.ok
            THEN /\ toggles' = toggles + 1
                 /\ paused' = FALSE
                 /\ pc' = "play_sleep"
                 /\ UNCHANGED << call, lastPP >>
            ELSE /\ call' = [call EXCEPT !.ret = "IoControlError"]
                 /\ lastPP' = [op |-> "play", ret |-> "IoControlError"]
                 /\ pc' = "idle"
                 /\ UNCHANGED << toggles, paused >>
    /\ UNCHANGED << fd, closeCalls, stream, sink, queued, player, pre,
                    prevPP, hist >>
    /\ UNCHANGED aux

\* Variant of PlayToggle that goes on to the sleep whatever toggle_rts
\* returned.
PlayToggle_e ==
    /\ pc = "play_toggle"
    /\ \E rdOk \in BOOLEAN, wrOk \in BOOLEAN :
         LET t == toggle_rts(rdOk, wrOk, control_bits) IN
         /\ control_bits' = t.bits
         /\ toggles' = IF t.ok THEN toggles + 1 ELSE toggles
    /\ pc' = "play_sleep"
    /\ UNCHANGED << fd, closeCalls, stream, sink, paused, queued, player,
                    call, pre, lastPP, prevPP, hist >>
    /\ UNCHANGED aux

\* Line 87: self.toggle_rts()?
PlayToggle ==
    /\ pc = "play_toggle"
    /\ \E rdOk \in BOOLEAN, wrOk \in BOOLEAN :
         LET t == toggle_rts(rdOk, wrOk, control_bits) IN
         /\ control_bits' = t.bits
         /\ IF t.ok
            THEN /\ toggles' = toggles + 1
                 /\ pc' = "play_sleep"
                 /\ UNCHANGED << call, lastPP >>
            ELSE /\ call' = [call EXCEPT !.ret = "IoControlError"]
                 /\ lastPP' = [op |-> "play", ret |-> "IoControlError"]
                 /\ pc' = "idle"
                 /\ UNCHANGED toggles
    /\ UNCHANGED << fd, closeCalls, stream, sink, paused, queued, player,
                    pre, prevPP, hist >>
    /\ UNCHANGED aux

\* Line 89: thread::sleep(Duration::from_millis(250))
PlaySleep ==
    /\ pc = "play_sleep"
    /\ pc' = "play_resume"
    /\ UNCHANGED << control_bits, fd, closeCalls, stream, sink, paused,
                    queued, player, call, pre, toggles, lastPP, prevPP,
                    hist >>
    /\ UNCHANGED aux

\* Lines 90-92: self.sink.play(); Ok(())
PlayResume ==
    /\ pc = "play_resume"
    /\ paused' = FALSE
    /\ call' = [call EXCEPT !.ret = "ok"]
    /\ lastPP' = [op |-> "play", ret |-> "ok"]
    /\ pc' = "idle"
    /\ UNCHANGED << control_bits, fd, closeCalls, stream, sink, queued,
                    player, pre, toggles, prevPP, hist >>
    /\ UNCHANGED aux

\* ----------------------------------------------------------------- pause
\* Variant of PauseRejects with the test of the line not negated.
PauseRejects_m(rts, is_paused) == rts \/ is_paused

\* !self.rts_is_enabled()? || self.sink.is_paused()
PauseRejects(rts, is_paused) == ~rts \/ is_paused

\* Lines 96-98: the precondition check of pause.
PauseCheck ==
    /\ pc = "idle"
    /\ player = "alive"
    /\ \E rdOk \in BOOLEAN :
         LET r == rts_is_enabled(rdOk, control_bits)
             ret == IF ~r.ok THEN "IoControlError"
                    ELSE IF PauseRejects(r.val, paused)
                         THEN "AlreadyPausedError"
                    ELSE "running"
         IN /\ call' = [op |-> "pause", ret |-> ret]
            /\ pc' = IF ret = "running" THEN "pause_sink" ELSE "idle"
            /\ lastPP' = IF ret = "running" THEN lastPP
                         ELSE [op |-> "pause", ret |-> ret]
    /\ prevPP' = lastPP
    /\ pre' = [bits |-> control_bits, paused |-> paused]
    /\ toggles' = 0
    /\ hist' = IF hist = "none" THEN "none"
               ELSE IF hist \in {"queued", "pp"} THEN "pp"
               ELSE "mixed"
    /\ UNCHANGED << control_bits, fd, closeCalls, stream, sink, paused,
                    queued, player >>
    /\ UNCHANGED aux

\* Variant of PauseSink that de-asserts the line at once, before the settle
\* delay.
PauseSink_m ==
    /\ pc = "pause_sink"
    /\ paused' = TRUE
    /\ control_bits' = BitXor(control_bits, TIOCM_RTS_FLAG)
    /\ toggles' = toggles + 1
    /\ pc' = "pause_sleep"
    /\ UNCHANGED << fd, closeCalls, stream, sink, queued, player, call, pre,
                    lastPP, prevPP, hist >>
    /\ UNCHANGED aux

\* Line 100: self.sink.pause()
PauseSink ==
    /\ pc = "pause_sink"
    /\ paused' = TRUE
    /\ pc' = "pause_sleep"
    /\ UNCHANGED << control_bits, fd, closeCalls, stream, sink, queued,
                    player, call, pre, toggles, lastPP, prevPP, hist >>
    /\ UNCHANGED aux

\* Line 102: thread::sleep(Duration::from_millis(250))
PauseSleep ==
    /\ pc = "pause_sleep"
    /\ pc' = "pause_toggle"
    /\ UNCHANGED << control_bits, fd, closeCalls, stream, sink, paused,
                    queued, player, call, pre, toggles, lastPP, prevPP,
                    hist >>
    /\ UNCHANGED aux

\* Lines 103-105: self.toggle_rts()?; Ok(())
PauseToggle ==
    /\ pc = "pause_toggle"
    /\ \E rdOk \in BOOLEAN, wrOk \in BOOLEAN :
         LET t == toggle_rts(rdOk, wrOk, control_bits)
             ret == IF t.ok THEN "ok" ELSE "IoControlError"
         IN /\ control_bits' = t.bits
            /\ toggles' = IF t.ok THEN toggles + 1 ELSE toggles
            /\ call' = [call EXCEPT !.ret = ret]
            /\ lastPP' = [op |-> "pause", ret |-> ret]
    /\ pc' = "idle"
    /\ UNCHANGED << fd, closeCalls, stream, sink, paused, queued, player,
                    pre, prevPP, hist >>
    /\ UNCHANGED aux

\* ------------------------------------------------------- Drop for Player
\* The caller lets a live Player go out of scope.
DropPlayer ==
    /\ pc = "idle"
    /\ player = "alive"
    /\ call' = [op |-> "drop", ret |-> "running"]
    /\ pre' = [bits |-> control_bits, paused |-> paused]
    /\ toggles' = 0
    /\ pc' = "drop_close"
    /\ UNCHANGED << control_bits, fd, closeCalls, stream, sink, paused,
                    queued, player, lastPP, prevPP, hist >>
    /\ UNCHANGED aux

\* Variant of DropClose that never calls close(2).
DropClose_m ==
    /\ pc = "drop_close"
    /\ pc' = "drop_fields"
    /\ UNCHANGED << control_bits, fd, closeCalls, stream, sink, paused,
                    queued, player, call, pre, toggles, lastPP, prevPP,
                    hist >>
    /\ UNCHANGED aux

\* Line 141: nix::unistd::close(self.tty_fd).expect("Failed to close fd")
DropClose ==
    /\ pc = "drop_close"
    /\ closeCalls' = closeCalls + 1
    /\ \E ok \in BOOLEAN :
         IF ok
         THEN /\ fd' = "closed"
              /\ pc' = "drop_fields"
              /\ UNCHANGED call
         ELSE /\ fd' = "close_failed"
              /\ pc' = "panicked"
              /\ call' = [call EXCEPT !.ret = "panic"]
    /\ UNCHANGED << control_bits, stream, sink, paused, queued, player, pre,
                    toggles, lastPP, prevPP, hist >>
    /\ UNCHANGED aux

\* After Drop::drop the fields are dropped in declaration order: sink, then
\* stream.  The Player is gone; a failed for_devices now returns its error.
DropFields ==
    /\ pc = "drop_fields"
    /\ sink' = "released"
    /\ stream' = "released"
    /\ player' = "dropped"
    /\ call' = IF call.op = "drop" THEN [call EXCEPT !.ret = "ok"] ELSE call
    /\ pc' = "start"
    /\ UNCHANGED << control_bits, fd, closeCalls, paused, queued, pre,
                    toggles, lastPP, prevPP, hist >>
    /\ UNCHANGED aux

Next ==
    \/ FD_Enumerate
    \/ FD_OpenStream
    \/ FD_NewSink
    \/ FD_OpenTty
    \/ FD_SafetyRead
    \/ FD_SafetyToggle
    \/ QA_Open
    \/ QA_Append
    \/ QA_Pause
    \/ SinkDrain
    \/ PlayCheck
    \/ PlayToggle
    \/ PlaySleep
    \/ PlayResume
    \/ PauseCheck
    \/ PauseSink
    \/ PauseSleep
    \/ PauseToggle
    \/ DropPlayer
    \/ DropClose
    \/ DropFields

Spec == Init /\ [][Next]_vars

\* A call that has passed its precondition check runs to its return: the
\* calling thread executes straight-line code and a 250 ms sleep.
LiveSpec ==
    /\ Spec
    /\ WF_vars(PlayToggle)
    /\ WF_vars(PlaySleep)
    /\ WF_vars(PlayResume)
    /\ WF_vars(PauseSink)
    /\ WF_vars(PauseSleep)
    /\ WF_vars(PauseToggle)

\* ------------------------------------------- a Player that is in use
\* The state for_devices and a first queue_audio leave behind: the line
\* de-asserted with the other bits as found, the sink paused with q sources.
LivePlayer(bits, q) ==
    /\ pc = "idle"
    /\ control_bits = bits
    /\ fd = "open"
    /\ closeCalls = 0
    /\ stream = "open"
    /\ sink = "open"
    /\ paused = TRUE
    /\ queued = q
    /\ player = "alive"
    /\ call = [op |-> "queue_audio", ret |-> "ok"]
    /\ pre = [bits |-> bits, paused |-> TRUE]
    /\ toggles = 0
    /\ lastPP = NoCall
    /\ prevPP = NoCall
    /\ hist = "queued"

\* ----------------------------------------- toggle_rts and rts_is_enabled
\* Largest number of successful toggles in one run.
MaxToggles == 4

\* A caller of the two public line operations on a live Player.
ToggleInit ==
    /\ \E bits \in Words : ~RtsBit(bits) /\ LivePlayer(bits, 1)
    /\ tg = [orig |-> control_bits, prev |-> control_bits, n |-> 0,
             last |-> "none", en |-> "none"]
    /\ main = NoMain
    /\ thr = NoThreads

\* Lines 121-133: one call of toggle_rts.
TG_Toggle ==
    /\ tg.n < MaxToggles
    /\ \E rdOk \in BOOLEAN, wrOk \in BOOLEAN :
         LET t == toggle_rts(rdOk, wrOk, control_bits) IN
         /\ control_bits' = t.bits
         /\ tg' = [tg EXCEPT !.prev = control_bits,
                             !.n = IF t.ok THEN @ + 1 ELSE @,
                             !.last = IF t.ok THEN "ok"
                                      ELSE IF ~rdOk THEN "read_err"
                                      ELSE "write_err",
                             !.en = "none"]
    /\ UNCHANGED << base, main, thr >>

\* Lines 112-119: one call of rts_is_enabled.
TG_IsEnabled ==
    /\ \E rdOk \in BOOLEAN :
         LET r == rts_is_enabled(rdOk, control_bits) IN
         tg' = [tg EXCEPT !.en = IF ~r.ok THEN "err"
                                 ELSE IF r.val THEN "true" ELSE "false"]
    /\ UNCHANGED << base, control_bits, main, thr >>

ToggleNext ==
    \/ TG_Toggle
    \/ TG_IsEnabled

ToggleSpec == ToggleInit /\ [][ToggleNext]_vars

\* -------------------------------------------------------- main (main.rs)
\* The front end calls by writing call = [op, "calling"]; the steps of the
\* callee follow, and a step of main takes the result.
Returned == call.ret \notin {"calling", "running"}

MainInit ==
    /\ InitBase
    /\ main = [pc |-> "loop", is_paused |-> TRUE, count |-> 0]
    /\ thr = NoThreads
    /\ tg = NoToggles

\* Lines 10-11: the top of the outer loop calls Player::for_devices.
M_Loop ==
    /\ main.pc = "loop"
    /\ pc = "start"
    /\ call' = [op |-> "for_devices", ret |-> "calling"]
    /\ main' = [main EXCEPT !.pc = "for_devices"]
    /\ UNCHANGED << pc, control_bits, fd, closeCalls, stream, sink, paused,
                    queued, player, pre, toggles, lastPP, prevPP, hist,
                    thr, tg >>

\* Line 11: the steps of for_devices, its Drop on the error route included.
M_ForDevices ==
    /\ main.pc = "for_devices"
    /\ \/ (call.ret = "calling" /\ FD_Enumerate)
       \/ FD_OpenStream
       \/ FD_NewSink
       \/ FD_OpenTty
       \/ FD_SafetyRead
       \/ FD_SafetyToggle
       \/ DropClose
       \/ DropFields

\* Lines 11-14: `?` on the result of for_devices; on Ok, call queue_audio.
M_ForDevicesResult ==
    /\ main.pc = "for_devices"
    /\ call.op = "for_devices"
    /\ Returned
    /\ pc \in {"idle", "start"}
    /\ IF call.ret = "ok"
       THEN /\ call' = [op |-> "queue_audio", ret |-> "calling"]
            /\ main' = [main EXCEPT !.pc = "queue_audio"]
       ELSE /\ main' = [main EXCEPT !.pc = "exit"]
            /\ UNCHANGED call
    /\ UNCHANGED << pc, control_bits, fd, closeCalls, stream, sink, paused,
                    queued, player, pre, toggles, lastPP, prevPP, hist,
                    thr, tg >>

\* Line 14: the steps of queue_audio.
M_QueueAudio ==
    /\ main.pc = "queue_audio"
    /\ \/ (call.ret = "calling" /\ QA_Open)
       \/ QA_Append
       \/ QA_Pause

\* Lines 14-17: `?` on the result of queue_audio; on Ok, is_paused = true
\* and count = 0.
M_QueueAudioResult ==
    /\ main.pc = "queue_audio"
    /\ call.op = "queue_audio"
    /\ Returned
    /\ pc = "idle"
    /\ main' = IF call.ret = "ok"
               THEN [pc |-> "read_line", is_paused |-> TRUE, count |-> 0]
               ELSE [main EXCEPT !.pc = "unwind"]
    /\ UNCHANGED << base, control_bits, thr, tg >>

\* Lines 19-27: read a line (`?`), then call play if is_paused, else pause.
M_ReadLine ==
    /\ main.pc = "read_line"
    /\ \E ok \in BOOLEAN :
         IF ok
         THEN /\ call' = [op |-> IF main.is_paused THEN "play" ELSE "pause",
                          ret |-> "calling"]
              /\ main' = [main EXCEPT !.pc = "call"]
         ELSE /\ main' = [main EXCEPT !.pc = "unwind"]
              /\ UNCHANGED call
    /\ UNCHANGED << pc, control_bits, fd, closeCalls, stream, sink, paused,
                    queued, player, pre, toggles, lastPP, prevPP, hist,
                    thr, tg >>

\* Lines 24 and 26: the steps of play or of pause.
M_Call ==
    /\ main.pc = "call"
    /\ \/ (call = [op |-> "play", ret |-> "calling"] /\ PlayCheck)
       \/ PlayToggle
       \/ PlaySleep
       \/ PlayResume
       \/ (call = [op |-> "pause", ret |-> "calling"] /\ PauseCheck)
       \/ PauseSink
       \/ PauseSleep
       \/ PauseToggle

\* Variant of M_CallResult that does not flip is_paused.
M_CallResult_m ==
    /\ main.pc = "call"
    /\ call.op \in {"play", "pause"}
    /\ Returned
    /\ pc = "idle"
    /\ main' = IF call.ret = "ok"
               THEN [pc |-> IF main.count + 1 > 1 THEN "sleep"
                            ELSE "read_line",
                     is_paused |-> main.is_paused,
                     count |-> main.count + 1]
               ELSE [main EXCEPT !.pc = "unwind"]
    /\ UNCHANGED << base, control_bits, thr, tg >>

\* Lines 24-32: `?` on the result of the call; on Ok, flip is_paused, count
\* the call and leave the inner loop when count > 1.
M_CallResult ==
    /\ main.pc = "call"
    /\ call.op \in {"play", "pause"}
    /\ Returned
    /\ pc = "idle"
    /\ main' = IF call.ret = "ok"
               THEN [pc |-> IF main.count + 1 > 1 THEN "sleep"
                            ELSE "read_line",
                     is_paused |-> ~main.is_paused,
                     count |-> main.count + 1]
               ELSE [main EXCEPT !.pc = "unwind"]
    /\ UNCHANGED << base, control_bits, thr, tg >>

\* Lines 35-37: thread::sleep(Duration::from_secs(2))
M_Sleep ==
    /\ main.pc = "sleep"
    /\ main' = [main EXCEPT !.pc = "drop"]
    /\ UNCHANGED << base, control_bits, thr, tg >>

\* Line 38, and every `?` that leaves main while player is in scope: the
\* Player is dropped.
M_Drop ==
    /\ main.pc \in {"drop", "unwind"}
    /\ \/ (call.op # "drop" /\ DropPlayer)
       \/ DropClose
       \/ DropFields

\* After the drop the outer loop starts over, or main returns the error.
M_DropDone ==
    /\ main.pc \in {"drop", "unwind"}
    /\ call = [op |-> "drop", ret |-> "ok"]
    /\ pc = "start"
    /\ main' = [main EXCEPT !.pc = IF main.pc = "drop" THEN "loop"
                                   ELSE "exit"]
    /\ UNCHANGED << base, control_bits, thr, tg >>

MainNext ==
    \/ M_Loop
    \/ M_ForDevices
    \/ M_ForDevicesResult
    \/ M_QueueAudio
    \/ M_QueueAudioResult
    \/ M_ReadLine
    \/ M_Call
    \/ M_CallResult
    \/ M_Sleep
    \/ M_Drop
    \/ M_DropDone
    \/ SinkDrain

MainSpec == MainInit /\ [][MainNext]_vars

\* ------------------------------------- two callers sharing one Player
\* play and pause take &self and hold no lock: each caller runs the
\* statements of its call in order, and the statements of the two callers
\* interleave.  rts_is_enabled and is_paused in the precondition are two
\* reads; toggle_rts is a TIOCMGET into a local word and a later TIOCMSET.
Threads == {"t1", "t2"}

\* What the callers leave alone.
frame == << pc, fd, closeCalls, stream, sink, queued, player, call, pre,
            toggles, lastPP, prevPP, hist, main, tg >>

ConcInit ==
    /\ \E bits \in Words : ~RtsBit(bits) /\ LivePlayer(bits, 1)
    /\ thr \in [Threads -> {[op |-> o, pc |-> "check_line", bits |-> 0,
                             ret |-> "running"] : o \in {"play", "pause"}}]
    /\ main = NoMain
    /\ tg = NoToggles

ThreadReturns(t, r) == [thr EXCEPT ![t].pc = "done", ![t].ret = r]

\* Lines 83 and 96, left operand: self.rts_is_enabled()?
T_CheckLine(t) ==
    /\ thr[t].pc = "check_line"
    /\ \E rdOk \in BOOLEAN :
         LET r == rts_is_enabled(rdOk, control_bits)
             rejects == IF thr[t].op = "play" THEN PlayRejects(r.val, TRUE)
                        ELSE PauseRejects(r.val, FALSE)
         IN thr' = IF ~r.ok THEN ThreadReturns(t, "IoControlError")
                   ELSE IF rejects
                        THEN ThreadReturns(t, IF thr[t].op = "play"
                                              THEN "AlreadyTransmittingError"
                                              ELSE "AlreadyPausedError")
                   ELSE [thr EXCEPT ![t].pc = "check_sink"]
    /\ UNCHANGED << frame, control_bits, paused >>

\* Lines 83 and 96, right operand: self.sink.is_paused()
T_CheckSink(t) ==
    /\ thr[t].pc = "check_sink"
    /\ thr' = IF thr[t].op = "play"
              THEN IF PlayRejects(FALSE, paused)
                   THEN ThreadReturns(t, "AlreadyTransmittingError")
                   ELSE [thr EXCEPT ![t].pc = "toggle_get"]
              ELSE IF PauseRejects(TRUE, paused)
                   THEN ThreadReturns(t, "AlreadyPausedError")
                   ELSE [thr EXCEPT ![t].pc = "sink_pause"]
    /\ UNCHANGED << frame, control_bits, paused >>

\* Lines 122-125: TIOCMGET into the local control_bits.
T_ToggleGet(t) ==
    /\ thr[t].pc = "toggle_get"
    /\ \E rdOk \in BOOLEAN :
         thr' = IF rdOk
                THEN [thr EXCEPT ![t].pc = "toggle_set",
                                 ![t].bits = control_bits]
                ELSE ThreadReturns(t, "IoControlError")
    /\ UNCHANGED << frame, control_bits, paused >>

\* Variant of T_ToggleSet that sets the RTS bit of the word it read.
T_ToggleSet_m(t) ==
    /\ thr[t].pc = "toggle_set"
    /\ \E wrOk \in BOOLEAN :
         IF wrOk
         THEN /\ control_bits' = IF RtsBit(thr[t].bits) THEN thr[t].bits
                                 ELSE thr[t].bits + TIOCM_RTS_FLAG
              /\ thr' = IF thr[t].op = "play"
                        THEN [thr EXCEPT ![t].pc = "sleep"]
                        ELSE ThreadReturns(t, "ok")
         ELSE /\ thr' = ThreadReturns(t, "IoControlError")
              /\ UNCHANGED control_bits
    /\ UNCHANGED << frame, paused >>

\* Lines 127-132 (and 88, 105): xor the local word, TIOCMSET it; play goes on
\* to its sleep, pause returns.
T_ToggleSet(t) ==
    /\ thr[t].pc = "toggle_set"
    /\ \E wrOk \in BOOLEAN :
         IF wrOk
         THEN /\ control_bits' = BitXor(thr[t].bits, TIOCM_RTS_FLAG)
              /\ thr' = IF thr[t].op = "play"
                        THEN [thr EXCEPT ![t].pc = "sleep"]
                        ELSE ThreadReturns(t, "ok")
         ELSE /\ thr' = ThreadReturns(t, "IoControlError")
              /\ UNCHANGED control_bits
    /\ UNCHANGED << frame, paused >>

\* Lines 89 and 102: thread::sleep(Duration::from_millis(250))
T_Sleep(t) ==
    /\ thr[t].pc = "sleep"
    /\ thr' = [thr EXCEPT ![t].pc = IF thr[t].op = "play" THEN "sink_play"
                                    ELSE "toggle_get"]
    /\ UNCHANGED << frame, control_bits, paused >>

\* Lines 90-92: self.sink.play(); Ok(())
T_SinkPlay(t) ==
    /\ thr[t].pc = "sink_play"
    /\ paused' = FALSE
    /\ thr' = ThreadReturns(t, "ok")
    /\ UNCHANGED << frame, control_bits >>

\* Line 100: self.sink.pause()
T_SinkPause(t) ==
    /\ thr[t].pc = "sink_pause"
    /\ paused' = TRUE
    /\ thr' = [thr EXCEPT ![t].pc = "sleep"]
    /\ UNCHANGED << frame, control_bits >>

ConcNext ==
    \E t \in Threads :
        \/ T_CheckLine(t)
        \/ T_CheckSink(t)
        \/ T_ToggleGet(t)
        \/ T_ToggleSet(t)
        \/ T_Sleep(t)
        \/ T_SinkPlay(t)
        \/ T_SinkPause(t)

ConcSpec == ConcInit /\ [][ConcNext]_vars

\* ================================================================ claims
InIdle == RtsBit(pre.bits) = FALSE /\ pre.paused
InTransmitting == RtsBit(pre.bits) /\ ~pre.paused

\* C1: after any sequence of play()/pause() calls on a Player with audio
\* queued, whatever each call returned, once the last call has returned the
\* line is asserted exactly when the sink is not paused.
C1_Correspondence ==
    (pc = "idle" /\ player = "alive" /\ hist = "pp")
        => (LineAsserted = SinkPlaying)

\* C2 as stated: a play() right after a successful play() (no pause() in
\* between) returns the already-transmitting error and leaves line and sink
\* as they were; likewise pause() after a successful pause() returns the
\* already-paused error.
C2_SecondCallRejected ==
    /\ (pc = "idle" /\ call.op = "play"
          /\ prevPP = [op |-> "play", ret |-> "ok"])
        => /\ call.ret = "AlreadyTransmittingError"
           /\ control_bits = pre.bits
           /\ paused = pre.paused
    /\ (pc = "idle" /\ call.op = "pause"
          /\ prevPP = [op |-> "pause", ret |-> "ok"])
        => /\ call.ret = "AlreadyPausedError"
           /\ control_bits = pre.bits
           /\ paused = pre.paused

\* C2 amended: the second call always returns an error and changes neither
\* the line nor the sink; the error is the already-transmitting
\* (already-paused) error, or the control-line error when the precondition's
\* own read of the line fails.
C2_SecondCallFails ==
    /\ (pc = "idle" /\ call.op = "play"
          /\ prevPP = [op |-> "play", ret |-> "ok"])
        => /\ call.ret \in {"AlreadyTransmittingError", "IoControlError"}
           /\ toggles = 0
           /\ control_bits = pre.bits
           /\ paused = pre.paused
    /\ (pc = "idle" /\ call.op = "pause"
          /\ prevPP = [op |-> "pause", ret |-> "ok"])
        => /\ call.ret \in {"AlreadyPausedError", "IoControlError"}
           /\ toggles = 0
           /\ control_bits = pre.bits
           /\ paused = pre.paused

C2_Witness ==
    /\ pc = "idle"
    /\ call = [op |-> "play", ret |-> "AlreadyTransmittingError"]
    /\ prevPP = [op |-> "play", ret |-> "ok"]

\* C3: when for_devices returns a Player the line is de-asserted; a line that
\* was asserted before has been toggled exactly once, a line that was not
\* has not been toggled, and no other bit of the word has changed.
C3_ConstructionDeasserts ==
    (pc = "idle" /\ call = [op |-> "for_devices", ret |-> "ok"])
        => /\ ~LineAsserted
           /\ toggles = (IF RtsBit(pre.bits) THEN 1 ELSE 0)
           /\ control_bits =
                (IF RtsBit(pre.bits) THEN pre.bits - TIOCM_RTS_FLAG
                 ELSE pre.bits)

C3_Witness ==
    /\ pc = "idle"
    /\ call = [op |-> "for_devices", ret |-> "ok"]
    /\ RtsBit(pre.bits)
    /\ toggles = 1
    /\ ~LineAsserted

C5_ClosedExactlyOnce ==
    /\ closeCalls <= 1
    /\ fd = "open" => (player = "alive" /\ closeCalls = 0)
    /\ fd # "open" /\ fd # "none" => closeCalls = 1
    /\ pc = "start" => (fd \in {"none", "closed"} /\ player # "alive")
    /\ player = "dropped" => (fd = "closed" /\ closeCalls = 1)

C5_Witness ==
    /\ pc = "start"
    /\ call = [op |-> "for_devices", ret |-> "IoControlError"]
    /\ player = "dropped"
    /\ fd = "closed"
    /\ closeCalls = 1

\* C6: when for_devices returns the error of opening the tty or of the
\* safety step, there is no live Player, and the stream, the sink and the
\* descriptor (if it was opened) have been released.
C6_FailedConstructionReleases ==
    (pc = "start" /\ call.op = "for_devices"
       /\ call.ret \in {"DeviceOpenError", "IoControlError"})
        => /\ player # "alive"
           /\ stream = "released"
           /\ sink = "released"
           /\ fd \in {"none", "closed"}
           /\ (call.ret = "IoControlError" => fd = "closed")

C6_Witness ==
    /\ pc = "start"
    /\ call = [op |-> "for_devices", ret |-> "DeviceOpenError"]
    /\ stream = "released"
    /\ sink = "released"
    /\ fd = "none"

\* C7: right after for_devices has returned a Player, before any queue_audio,
\* the line is de-asserted, the sink is paused, and play() would pass its
\* precondition check.
C7_FreshPlayerIdle ==
    (pc = "idle" /\ call = [op |-> "for_devices", ret |-> "ok"])
        => /\ ~LineAsserted
           /\ ~SinkPlaying
           /\ ~PlayRejects(LineAsserted, paused)

\* C8: once audio has been queued, after any sequence of queue_audio, play()
\* and pause() calls, whenever no call is in progress the line is asserted
\* exactly when the sink is not paused.
C8_CorrespondenceAnyOrder ==
    (pc = "idle" /\ player = "alive" /\ hist # "none")
        => (LineAsserted = SinkPlaying)

\* C9: from the start of a successful queue_audio until the next call, the
\* sink never holds queued audio while it is not paused.
C9_QueueNeverPlays ==
    (call.op = "queue_audio" /\ call.ret \in {"running", "ok"})
        => ~(queued > 0 /\ SinkPlaying)

\* C10: in a pause() called in Transmitting, the line stays asserted until
\* the sink is paused and the settle delay is over; it is de-asserted only
\* by the final toggle, and never while the sink is not paused.
C10_PauseOrder ==
    (call.op = "pause" /\ InTransmitting)
        => /\ pc \in {"pause_sink", "pause_sleep", "pause_toggle"} =>
                (LineAsserted /\ toggles = 0)
           /\ pc \in {"pause_sleep", "pause_toggle"} => ~SinkPlaying
           /\ ~LineAsserted =>
                /\ ~SinkPlaying
                /\ toggles = 1
                /\ pc = "idle"
                /\ call.ret = "ok"
           /\ call.ret = "ok" => (~SinkPlaying /\ ~LineAsserted)

C10_Witness ==
    /\ pc = "pause_sleep"
    /\ call = [op |-> "pause", ret |-> "running"]
    /\ InTransmitting
    /\ LineAsserted
    /\ ~SinkPlaying
\* C11: when the matched audio device cannot be opened for output,
\* for_devices returns the stream error to its caller (it does not panic)
\* and the tty has not been opened.
C11_StreamErrorReturned ==
    (call.op = "for_devices" /\ stream = "none" /\ pc # "fd_stream"
       /\ call.ret \notin {"EnumerateError", "DeviceNotFoundError"})
        => /\ pc = "start"
           /\ call.ret = "StreamInitError"
           /\ fd = "none"

\* C16: whenever a Player exists and no call is in progress, play() or
\* pause() would pass its precondition check.
C16_NeverStuck ==
    (pc = "idle" /\ player = "alive")
        => \/ ~PlayRejects(LineAsserted, paused)
           \/ ~PauseRejects(LineAsserted, paused)

\* C17: once a queue_audio has returned Ok, in every state of the Player,
\* inside the settle windows and after failed calls too, a sink that is not
\* paused implies an asserted line.
C17_PlayingImpliesAsserted ==
    (player = "alive" /\ hist # "none") => (SinkPlaying => LineAsserted)

C17_Witness ==
    /\ pc = "idle"
    /\ player = "alive"
    /\ hist = "pp"
    /\ call = [op |-> "pause", ret |-> "IoControlError"]
    /\ LineAsserted
    /\ ~SinkPlaying

\* C13: a successful toggle_rts changes the RTS bit of the word and no other
\* bit, so rts_is_enabled after it is the negation of before and an even
\* number of successful toggles gives the original word back; a toggle
\* whose read fails leaves the word as it was.
C13_ToggleFlipsOnlyRts ==
    /\ tg.last = "ok" =>
         /\ control_bits % TIOCM_RTS_FLAG = tg.prev % TIOCM_RTS_FLAG
         /\ control_bits \div (2 * TIOCM_RTS_FLAG)
              = tg.prev \div (2 * TIOCM_RTS_FLAG)
         /\ (control_bits \div TIOCM_RTS_FLAG) % 2
              # (tg.prev \div TIOCM_RTS_FLAG) % 2
         /\ rts_is_enabled(TRUE, control_bits).val
              = ~rts_is_enabled(TRUE, tg.prev).val
    /\ tg.last = "read_err" => control_bits = tg.prev
    /\ tg.n % 2 = 0 => control_bits = tg.orig
    /\ tg.n % 2 = 1 => control_bits # tg.orig
    /\ tg.en \in {"true", "false"} =>
         (tg.en = "true" <=> (control_bits \div TIOCM_RTS_FLAG) % 2 = 1)

C13_Witness ==
    /\ tg.n = 2
    /\ tg.last = "ok"
    /\ control_bits = tg.orig
    /\ control_bits % TIOCM_RTS_FLAG # 0
    /\ tg.en = "false"

\* C14: when no control-line operation fails, a play() called in Idle
\* returns Ok with the line asserted and the sink playing, and a pause()
\* called in Transmitting returns Ok with the line de-asserted and the sink
\* paused; every such call, once past its check, does return.
C14_CyclesSucceed ==
    /\ []((pc = "idle" /\ call.op = "play" /\ InIdle
             /\ call.ret # "IoControlError")
            => (call.ret = "ok" /\ LineAsserted /\ SinkPlaying))
    /\ []((pc = "idle" /\ call.op = "pause" /\ InTransmitting
             /\ call.ret # "IoControlError")
            => (call.ret = "ok" /\ ~LineAsserted /\ ~SinkPlaying))
    /\ (pc \in {"play_toggle", "play_sleep", "play_resume"}) ~> (pc = "idle")
    /\ (pc \in {"pause_sink", "pause_sleep", "pause_toggle"}) ~> (pc = "idle")

C14_Witness ==
    /\ pc = "idle"
    /\ call = [op |-> "pause", ret |-> "ok"]
    /\ prevPP = [op |-> "play", ret |-> "ok"]
    /\ InTransmitting
    /\ hist = "pp"
    /\ ~LineAsserted
    /\ ~SinkPlaying

\* C15: in main, at each call the flag is_paused equals the sink's pause
\* flag, the first call of a cycle is play() and the second pause(); a cycle
\* that reaches the 2 s sleep has made exactly queue_audio, play(), pause()
\* on its Player, all Ok; and no tty_fd is open when the loop starts over.
C15_MainCycle ==
    /\ (main.pc = "call" /\ call.ret = "calling") =>
         /\ main.is_paused = paused
         /\ main.count \in {0, 1}
         /\ call.op = (IF main.count = 0 THEN "play" ELSE "pause")
         /\ player = "alive"
    /\ main.pc = "sleep" =>
         /\ main.count = 2
         /\ hist = "pp"
         /\ prevPP = [op |-> "play", ret |-> "ok"]
         /\ lastPP = [op |-> "pause", ret |-> "ok"]
         /\ call = [op |-> "pause", ret |-> "ok"]
         /\ player = "alive"
         /\ fd = "open"
    /\ (main.pc = "loop" \/ (main.pc = "for_devices" /\ call.ret = "calling"))
         => (fd \in {"none", "closed"} /\ player # "alive")
    /\ fd = "open" => closeCalls = 0

C15_Witness ==
    /\ main.pc = "loop"
    /\ main.count = 2
    /\ call = [op |-> "drop", ret |-> "ok"]
    /\ lastPP = [op |-> "pause", ret |-> "ok"]
    /\ fd = "closed"
    /\ closeCalls = 1

\* C18: in main, whenever the tty_fd of a Player that for_devices returned
\* has been closed, the line is de-asserted.
C18_ClosedDeasserted ==
    (fd = "closed" /\ call.op = "drop") => ~LineAsserted

\* C12: with two unsynchronised callers both calling play() in Idle, when
\* both have returned Ok the sink is playing, and the line is asserted only
\* if the two toggles read the same word; if the second toggle read the word
\* the first one wrote, it de-asserted the line again.  (The witness is the
\* interleaving of the claim: both passed the check, both returned Ok, line
\* de-asserted, sink playing.)
BothPlayedOk ==
    \A t \in Threads :
        thr[t].op = "play" /\ thr[t].pc = "done" /\ thr[t].ret = "ok"

C12_UnsynchronisedPlay ==
    (thr # NoThreads /\ BothPlayedOk)
        => /\ SinkPlaying
           /\ LineAsserted <=> (thr["t1"].bits = thr["t2"].bits)
           /\ control_bits % TIOCM_RTS_FLAG = pre.bits % TIOCM_RTS_FLAG

C12_Witness ==
    /\ thr # NoThreads
    /\ BothPlayedOk
    /\ SinkPlaying
    /\ ~LineAsserted
====
